---- MODULE Spec2Model ----
(***************************************************************************)
(* Model of ballistica's Object core (src/ballistica/core/object.cc) in a  *)
(* debug build: the global object registry (object_list_first,             *)
(* object_count, object_list_mutex), Object::Object, Object::~Object,      *)
(* Object::LsObjects, Object::GetObjectTypeName,                           *)
(* Object::ObjectUpdateForAcquire and Object::ObjectThreadCheck; and of    *)
(* MeshData (src/ballistica/graphics/mesh/mesh_data.h).  Constructors,     *)
(* destructors, the census and the acquisition of a strong reference are   *)
(* split at the points where another thread can interleave; an object is   *)
(* of a class derived from Object, whose constructors and destructors move *)
(* the object's vptr, which the census reads through typeid.               *)
(*                                                                         *)
(* Specifications:                                                         *)
(*   Spec          objects with strong and weak references, constructed    *)
(*                 and destroyed concurrently;                             *)
(*   SpecStrong    the same with strong references only;                   *)
(*   SpecWalk      the same with weak references only, the thread running  *)
(*                 the destructor's loop being scheduled fairly;           *)
(*   SpecTeardown  destruction of objects that weak references are bound   *)
(*                 to and unbound from, the unbindings being recorded;     *)
(*   SpecRegistry  constructions, destructions and censuses, concurrently; *)
(*   SpecClasses   censuses of objects of a class two levels below Object, *)
(*                 also from the bodies of constructors and destructors;   *)
(*   SpecCensus    the census report as a function of the live objects;    *)
(*   SpecRace      acquisitions and thread checks made concurrently on an  *)
(*                 object of any affinity mode;                            *)
(*   SpecMesh      MeshData constructed, loaded, unloaded, read and        *)
(*                 destroyed.                                              *)
(***************************************************************************)
EXTENDS Integers, Sequences, FiniteSets, TLC

\* ------------------------------------------------------------------ bounds
NumThreads == 2
NumObjects == 3
NumWeakRefs == 2
\* Objects constructed in the specification of strong and weak references.
NumRefObjects == 2
MaxStrongRefs == 1
MaxCensusLen == 7
NumMeshes == 3

\* --------------------------------------------------------------- constants
\* nullptr, for object and weak-reference pointers (ids start at 1).
NULL == 0
\* No thread owns object_list_mutex.
NoThread == 0

Threads == 1..NumThreads
Objects == 1..NumObjects
WeakRefs == 1..NumWeakRefs
Meshes == 1..NumMeshes

\* ThreadTag values used by object.cc.
ThreadTags == {"kMain", "kLogic", "kAudio", "kNetworkWrite", "kAssets",
               "kBGDynamics"}
kInvalid == "kInvalid"

\* What the In*Thread() predicates can say of the calling thread: it is one
\* of the six recognized threads, or none of them.
ThreadKinds == {"main", "logic", "audio", "network_write", "assets",
                "bg_dynamics", "other"}

\* Object::ThreadOwnership values read by object.cc, plus the mode of an
\* object whose owner role is fixed at construction.
ThreadOwnerships == {"kClassDefault", "kNextReferencing", "kFixedThread"}

\* Type names (GetObjectTypeName results) as strings of character codes:
\* "A", "B", "C".
TypeNames == {<<65>>, <<66>>, <<67>>}
\* typeid(Object), demangled: "ballistica::Object".
ObjectTypeName == <<98, 97, 108, 108, 105, 115, 116, 105, 99, 97, 58, 58, 79,
                    98, 106, 101, 99, 116>>
\* The classes constructed, each given by its chain of classes derived from
\* Object, base first: class A : Object, and class B : A.
ClassA == << <<65>> >>
ClassB == << <<65>>, <<66>> >>

VARIABLES
  object_list_first,        \* g_app->object_list_first
  object_count,             \* g_app->object_count
  object_list_mutex,        \* holder of g_app->object_list_mutex
  object_prev_,             \* Object::object_prev_
  object_next_,             \* Object::object_next_
  object_strong_ref_count_, \* Object::object_strong_ref_count_
  object_weak_refs_,        \* Object::object_weak_refs_ (chain head)
  thread_ownership_,        \* Object::thread_ownership_
  owner_thread_,            \* Object::owner_thread_
  thread_checks_enabled_,   \* Object::thread_checks_enabled_
  default_owner,            \* result of the object's GetDefaultOwnerThread()
  class_chain,              \* the object's classes below Object, base first
  vptr_,                    \* how many of them the object's vptr has reached
  status,                   \* lifecycle of each object
  obj_,                     \* WeakRef::obj_
  prev_,                    \* WeakRef::prev_
  next_,                    \* WeakRef::next_
  bound_to,                 \* history: object each weak ref was last bound to
  unbound_from,             \* history: object each was last unbound from
  walk,                     \* ~Object: chain length at loop entry, iterations
  pc,                       \* each thread's position
  self,                     \* each thread's `this` / loop pointer
  thread_kind,              \* which thread each thread is
  ls_count,                 \* LsObjects: local `count`
  ls_map,                   \* LsObjects: local `obj_map`
  ls_s,                     \* LsObjects: local `s` (the report)
  ls_o,                     \* LsObjects: loop variable `o`
  ls_ret,                   \* where each thread called LsObjects from
  census_in,                \* type names along the list, for a census run alone
  warned,                   \* objects whose destructor printed the warning
  assert_failed,            \* assert(count == object_count) failed
  outcome,                  \* the last ObjectThreadCheck result or exception
  writes,                   \* number of writes to each object's owner_thread_
  renderer_data_,           \* MeshData::renderer_data_
  mesh_status,              \* lifecycle of each MeshData
  mesh_last_op,             \* history: the last of Load / Unload called on it
  mesh_leaked,              \* MeshData whose destructor logged the error
  mesh_access               \* the last call of MeshData::renderer_data()

vars == <<object_list_first, object_count, object_list_mutex, object_prev_,
          object_next_, object_strong_ref_count_, object_weak_refs_,
          thread_ownership_, owner_thread_, thread_checks_enabled_,
          default_owner, class_chain, vptr_, status, obj_, prev_, next_,
          bound_to, unbound_from, walk, pc, self, thread_kind, ls_count,
          ls_map, ls_s, ls_o, ls_ret, census_in, warned, assert_failed,
          outcome, writes, renderer_data_, mesh_status, mesh_last_op,
          mesh_leaked, mesh_access>>

registryVars == <<object_list_first, object_count, object_prev_, object_next_>>
weakVars == <<obj_, prev_, next_, object_weak_refs_, bound_to, unbound_from,
              walk>>
affinityVars == <<thread_ownership_, owner_thread_, thread_checks_enabled_,
                  default_owner, writes>>
censusVars == <<ls_count, ls_map, ls_s, ls_o, ls_ret, census_in,
               assert_failed>>
typeVars == <<class_chain, vptr_>>
meshVars == <<renderer_data_, mesh_status, mesh_last_op, mesh_leaked,
              mesh_access>>


\* Positions of a thread inside the acquisition of a strong reference.
AcquirePcs == {"acquire_write", "acquire_count"}

\* ---------------------------------------------------------------- helpers
\* std::string operator< : lexicographic order on character codes, a proper
\* prefix being smaller.
StrLess(a, b) ==
  \E k \in 1..Len(b) :
    /\ k <= Len(a) + 1
    /\ \A i \in 1..(k - 1) : a[i] = b[i]
    /\ IF k = Len(a) + 1 THEN TRUE ELSE a[k] < b[k]

\* std::pair<int, std::string> operator< : by count, then by name.
PairLess(p, q) == p[1] < q[1] \/ (p[1] = q[1] /\ StrLess(p[2], q[2]))

\* Mutant of SortReversed: std::sort(sorted.begin(), sorted.end()).
RECURSIVE SortForward(_)
SortForward(S) ==
  IF S = {} THEN <<>>
  ELSE LET low == CHOOSE p \in S : \A q \in S \ {p} : PairLess(p, q)
       IN <<low>> \o SortForward(S \ {low})

\* std::sort(sorted.rbegin(), sorted.rend()): the reversed range ascending,
\* that is the vector descending by PairLess.
RECURSIVE SortReversed(_)
SortReversed(S) ==
  IF S = {} THEN <<>>
  ELSE LET top == CHOOSE p \in S : \A q \in S \ {p} : PairLess(q, p)
       IN <<top>> \o SortReversed(S \ {top})

\* The tally of one node in LsObjects' loop: obj_map.find / insert 1 / ++.
TallyOne(m, name) ==
  IF name \notin DOMAIN m
  THEN [n \in DOMAIN m \cup {name} |-> IF n = name THEN 1 ELSE m[n]]
  ELSE [m EXCEPT ![name] = @ + 1]

\* The (count, name) pairs emplaced from obj_map, sorted.
SortedPairs(m) == SortReversed({<<m[n], n>> : n \in DOMAIN m})

EmptyMap == [n \in {} |-> 0]

\* Mutant of GetCurrentThreadTag: an unrecognized thread is taken for the
\* main thread instead of throwing.
GetCurrentThreadTag_Fallback(kind) ==
  IF kind = "logic" THEN "kLogic"
  ELSE IF kind = "audio" THEN "kAudio"
  ELSE IF kind = "network_write" THEN "kNetworkWrite"
  ELSE IF kind = "assets" THEN "kAssets"
  ELSE IF kind = "bg_dynamics" THEN "kBGDynamics"
  ELSE "kMain"

\* GetCurrentThreadTag(): the tag of the calling thread, or the thrown
\* "unrecognized thread" exception.
GetCurrentThreadTag(kind) ==
  IF kind = "main" THEN "kMain"
  ELSE IF kind = "logic" THEN "kLogic"
  ELSE IF kind = "audio" THEN "kAudio"
  ELSE IF kind = "network_write" THEN "kNetworkWrite"
  ELSE IF kind = "assets" THEN "kAssets"
  ELSE IF kind = "bg_dynamics" THEN "kBGDynamics"
  ELSE "throw"

\* The weak references of o's chain, from object_weak_refs_ along next_.
RECURSIVE ChainFrom(_, _)
ChainFrom(w, fuel) ==
  IF w = NULL \/ fuel = 0 THEN <<>>
  ELSE <<w>> \o ChainFrom(next_[w], fuel - 1)
WeakChain(o) == ChainFrom(object_weak_refs_[o], NumWeakRefs + 1)

\* The objects of the live list, from object_list_first along object_next_.
RECURSIVE ListFrom(_, _)
ListFrom(o, fuel) ==
  IF o = NULL \/ fuel = 0 THEN <<>>
  ELSE <<o>> \o ListFrom(object_next_[o], fuel - 1)
LiveList == ListFrom(object_list_first, NumObjects + 1)

\* ------------------------------------------------------- registry mutex
\* std::scoped_lock lock(g_app->object_list_mutex): blocks until free.
scoped_lock(t) == object_list_mutex = NoThread /\ object_list_mutex' = t
\* The lock's scope ends.
scoped_unlock(t) == object_list_mutex' = NoThread

\* ------------------------------------------------------- Object::Object
\* Mutant of ObjectCtorLock: the constructor does not take the mutex.
ObjectCtorLock_Unlocked(t, o, chain) ==
  /\ pc[t] = "idle"
  /\ status[o] = "unborn"
  /\ \A p \in Objects : p < o => status[p] # "unborn"
  /\ pc' = [pc EXCEPT ![t] = "ctor_splice"]
  /\ self' = [self EXCEPT ![t] = o]
  /\ status' = [status EXCEPT ![o] = "constructing"]
  /\ class_chain' = [class_chain EXCEPT ![o] = chain]
  /\ vptr_' = [vptr_ EXCEPT ![o] = 0]
  /\ UNCHANGED <<registryVars, object_list_mutex, weakVars, affinityVars,
                 censusVars, object_strong_ref_count_, thread_kind, meshVars,
                 warned, outcome>>

\* Line 69: Object::Object, run first by the constructor of an object whose
\* classes derived from Object are `chain`, takes the mutex; the object's
\* vptr is Object's.  The allocator hands out the lowest address not yet
\* used.
ObjectCtorLock(t, o, chain) ==
  /\ pc[t] = "idle"
  /\ status[o] = "unborn"
  /\ \A p \in Objects : p < o => status[p] # "unborn"
  /\ scoped_lock(t)
  /\ pc' = [pc EXCEPT ![t] = "ctor_splice"]
  /\ self' = [self EXCEPT ![t] = o]
  /\ status' = [status EXCEPT ![o] = "constructing"]
  /\ class_chain' = [class_chain EXCEPT ![o] = chain]
  /\ vptr_' = [vptr_ EXCEPT ![o] = 0]
  /\ UNCHANGED <<registryVars, weakVars, affinityVars, censusVars,
                 object_strong_ref_count_, thread_kind, meshVars, warned,
                 outcome>>

\* Mutant of ObjectCtorSplice: the old head's object_prev_ is not set.
ObjectCtorSplice_NoBackLink(t) ==
  /\ pc[t] = "ctor_splice"
  /\ LET o == self[t]
         nxt == object_list_first
     IN /\ object_prev_' = [object_prev_ EXCEPT ![o] = NULL]
        /\ object_next_' = [object_next_ EXCEPT ![o] = nxt]
        /\ object_list_first' = o
  /\ pc' = [pc EXCEPT ![t] = "ctor_count"]
  /\ UNCHANGED <<object_count, object_list_mutex, weakVars, affinityVars,
                 censusVars, object_strong_ref_count_, typeVars, status,
                 self, thread_kind, meshVars, warned, outcome>>

\* Lines 70-75: splice at the head of the list.
ObjectCtorSplice(t) ==
  /\ pc[t] = "ctor_splice"
  /\ LET o == self[t]
         nxt == object_list_first
     IN /\ object_prev_' =
             IF nxt # NULL
             THEN [object_prev_ EXCEPT ![o] = NULL, ![nxt] = o]
             ELSE [object_prev_ EXCEPT ![o] = NULL]
        /\ object_next_' = [object_next_ EXCEPT ![o] = nxt]
        /\ object_list_first' = o
  /\ pc' = [pc EXCEPT ![t] = "ctor_count"]
  /\ UNCHANGED <<object_count, object_list_mutex, weakVars, affinityVars,
                 censusVars, object_strong_ref_count_, typeVars, status,
                 self, thread_kind, meshVars, warned, outcome>>

\* Lines 76-78: count the object; Object::Object returns, the lock is
\* released.  The constructors of the derived classes run next, on the same
\* thread.
ObjectCtorCount(t) ==
  /\ pc[t] = "ctor_count"
  /\ object_count' = object_count + 1
  /\ scoped_unlock(t)
  /\ status' = [status EXCEPT ![self[t]] = "deriving"]
  /\ pc' = [pc EXCEPT ![t] = "ctor_derived"]
  /\ UNCHANGED <<object_list_first, object_prev_, object_next_, weakVars,
                 affinityVars, censusVars, object_strong_ref_count_,
                 typeVars, self, thread_kind, meshVars, warned, outcome>>

\* The constructor of the next class of the object's chain starts: it makes
\* the object's vptr point at its own class, which is what typeid at line
\* 121 gives from then on.  It writes the vptr with no lock held, a
\* census on another thread reading it before or after.  With the
\* constructor of the last class the object is complete.
DerivedCtor(t) ==
  /\ pc[t] = "ctor_derived"
  /\ LET o == self[t]
     IN /\ vptr_[o] < Len(class_chain[o])
        /\ vptr_' = [vptr_ EXCEPT ![o] = @ + 1]
        /\ IF vptr_[o] + 1 = Len(class_chain[o])
           THEN /\ status' = [status EXCEPT ![o] = "live"]
                /\ pc' = [pc EXCEPT ![t] = "idle"]
                /\ self' = [self EXCEPT ![t] = NULL]
           ELSE UNCHANGED <<status, pc, self>>
  /\ UNCHANGED <<registryVars, object_list_mutex, weakVars, affinityVars,
                 censusVars, object_strong_ref_count_, class_chain,
                 thread_kind, meshVars, warned, outcome>>

\* ------------------------------------------------------ Object::~Object
\* No weak-reference loop is running on the thread.
NoWalk == [k |-> 0, iters |-> 0]

\* Destroying an object: the destructor of the class the vptr points at
\* runs and tears that class's part down; the destructor of its base starts
\* next, on the same thread, and makes the vptr point at the base, down to
\* Object::~Object.  Destruction happens after every other operation on
\* the instance has ceased.
DerivedDtor(t, o) ==
  /\ \/ /\ pc[t] = "idle" /\ status[o] = "live"
        /\ \A u \in Threads : ~(pc[u] \in AcquirePcs /\ self[u] = o)
     \/ pc[t] = "dtor_base" /\ self[t] = o /\ status[o] = "derived_gone"
  /\ vptr_[o] > 0
  /\ vptr_' = [vptr_ EXCEPT ![o] = @ - 1]
  /\ pc' = [pc EXCEPT ![t] = "dtor_base"]
  /\ self' = [self EXCEPT ![t] = o]
  /\ status' = [status EXCEPT ![o] = "derived_gone"]
  /\ UNCHANGED <<registryVars, object_list_mutex, weakVars, affinityVars,
                 censusVars, object_strong_ref_count_, class_chain,
                 thread_kind, meshVars, warned, outcome>>

\* Line 83: Object::~Object, entered once the derived classes' destructors
\* have run, takes the mutex.
ObjectDtorLock(t, o) ==
  /\ pc[t] = "dtor_base" /\ self[t] = o
  /\ status[o] = "derived_gone" /\ vptr_[o] = 0
  /\ scoped_lock(t)
  /\ pc' = [pc EXCEPT ![t] = "dtor_unsplice"]
  /\ status' = [status EXCEPT ![o] = "destroying"]
  /\ UNCHANGED <<registryVars, weakVars, affinityVars, censusVars,
                 object_strong_ref_count_, typeVars, self, thread_kind,
                 meshVars, warned, outcome>>

\* Mutant of ObjectDtorUnsplice: the successor's object_prev_ is left
\* pointing at the dying object.
ObjectDtorUnsplice_StalePrev(t) ==
  /\ pc[t] = "dtor_unsplice"
  /\ LET o == self[t]
         nxt == object_next_[o]
         prv == object_prev_[o]
     IN /\ object_prev_' = object_prev_
        /\ object_next_' =
             IF prv # NULL THEN [object_next_ EXCEPT ![prv] = nxt]
             ELSE object_next_
        /\ object_list_first' =
             IF prv # NULL THEN object_list_first ELSE nxt
  /\ object_count' = object_count - 1
  /\ pc' = [pc EXCEPT ![t] = "dtor_warn"]
  /\ UNCHANGED <<object_list_mutex, weakVars, affinityVars, censusVars,
                 object_strong_ref_count_, typeVars, status, self,
                 thread_kind, meshVars, warned, outcome>>

\* Mutant of ObjectDtorUnsplice: the object is taken for the head whatever
\* its object_prev_.
ObjectDtorUnsplice_AsHead(t) ==
  /\ pc[t] = "dtor_unsplice"
  /\ LET o == self[t]
         nxt == object_next_[o]
         prv == object_prev_[o]
     IN /\ object_prev_' =
             IF nxt # NULL THEN [object_prev_ EXCEPT ![nxt] = prv]
             ELSE object_prev_
        /\ object_next_' = object_next_
        /\ object_list_first' = nxt
  /\ object_count' = object_count - 1
  /\ pc' = [pc EXCEPT ![t] = "dtor_warn"]
  /\ UNCHANGED <<object_list_mutex, weakVars, affinityVars, censusVars,
                 object_strong_ref_count_, typeVars, status, self,
                 thread_kind, meshVars, warned, outcome>>

\* Lines 84-92: unsplice from the list, decrement the count.
ObjectDtorUnsplice(t) ==
  /\ pc[t] = "dtor_unsplice"
  /\ LET o == self[t]
         nxt == object_next_[o]
         prv == object_prev_[o]
     IN /\ object_prev_' =
             IF nxt # NULL THEN [object_prev_ EXCEPT ![nxt] = prv]
             ELSE object_prev_
        /\ object_next_' =
             IF prv # NULL THEN [object_next_ EXCEPT ![prv] = nxt]
             ELSE object_next_
        /\ object_list_first' =
             IF prv # NULL THEN object_list_first ELSE nxt
  /\ object_count' = object_count - 1
  /\ pc' = [pc EXCEPT ![t] = "dtor_warn"]
  /\ UNCHANGED <<object_list_mutex, weakVars, affinityVars, censusVars,
                 object_strong_ref_count_, typeVars, status, self,
                 thread_kind, meshVars, warned, outcome>>

\* Mutant of ObjectDtorWarn: the warning is printed whatever the count.
ObjectDtorWarn_Always(t) ==
  /\ pc[t] = "dtor_warn"
  /\ warned' = warned \cup {self[t]}
  /\ pc' = [pc EXCEPT ![t] = "dtor_weak"]
  /\ walk' = [walk EXCEPT ![t] = [k |-> Len(WeakChain(self[t])), iters |-> 0]]
  /\ UNCHANGED <<registryVars, object_list_mutex, obj_, prev_, next_,
                 object_weak_refs_, bound_to, unbound_from, affinityVars,
                 censusVars, object_strong_ref_count_, typeVars, status,
                 self, thread_kind, meshVars, outcome>>

\* Lines 95-101: the non-zero ref-count warning (printf).
ObjectDtorWarn(t) ==
  /\ pc[t] = "dtor_warn"
  /\ warned' = IF object_strong_ref_count_[self[t]] # 0
               THEN warned \cup {self[t]} ELSE warned
  /\ pc' = [pc EXCEPT ![t] = "dtor_weak"]
  /\ walk' = [walk EXCEPT ![t] = [k |-> Len(WeakChain(self[t])), iters |-> 0]]
  /\ UNCHANGED <<registryVars, object_list_mutex, obj_, prev_, next_,
                 object_weak_refs_, bound_to, unbound_from, affinityVars,
                 censusVars, object_strong_ref_count_, typeVars, status,
                 self, thread_kind, meshVars, outcome>>

\* Mutant of ObjectDtorWeakStep: the node is unlinked but its obj_ is not
\* cleared.
ObjectDtorWeakStep_KeepsObj(t) ==
  /\ pc[t] = "dtor_weak"
  /\ object_weak_refs_[self[t]] # NULL
  /\ LET tmp == object_weak_refs_[self[t]]
     IN /\ object_weak_refs_' =
             [object_weak_refs_ EXCEPT ![self[t]] = next_[tmp]]
        /\ prev_' = [prev_ EXCEPT ![tmp] = NULL]
        /\ next_' = [next_ EXCEPT ![tmp] = NULL]
        /\ obj_' = obj_
  /\ walk' = [walk EXCEPT ![t].iters = @ + 1]
  /\ UNCHANGED <<registryVars, object_list_mutex, bound_to, unbound_from,
                 affinityVars, censusVars, object_strong_ref_count_,
                 typeVars, status, pc, self, thread_kind, meshVars, warned,
                 outcome>>

\* Mutant of ObjectDtorWeakStep: the node's prev_ is not cleared.
ObjectDtorWeakStep_KeepsPrev(t) ==
  /\ pc[t] = "dtor_weak"
  /\ object_weak_refs_[self[t]] # NULL
  /\ LET tmp == object_weak_refs_[self[t]]
     IN /\ object_weak_refs_' =
             [object_weak_refs_ EXCEPT ![self[t]] = next_[tmp]]
        /\ prev_' = prev_
        /\ next_' = [next_ EXCEPT ![tmp] = NULL]
        /\ obj_' = [obj_ EXCEPT ![tmp] = NULL]
  /\ walk' = [walk EXCEPT ![t].iters = @ + 1]
  /\ UNCHANGED <<registryVars, object_list_mutex, bound_to, unbound_from,
                 affinityVars, censusVars, object_strong_ref_count_,
                 typeVars, status, pc, self, thread_kind, meshVars, warned,
                 outcome>>

\* Mutant of ObjectDtorWeakStep: object_weak_refs_ is advanced after
\* tmp->next_ has been cleared.
ObjectDtorWeakStep_AdvanceLate(t) ==
  /\ pc[t] = "dtor_weak"
  /\ object_weak_refs_[self[t]] # NULL
  /\ LET tmp == object_weak_refs_[self[t]]
     IN /\ object_weak_refs_' = [object_weak_refs_ EXCEPT ![self[t]] = NULL]
        /\ prev_' = [prev_ EXCEPT ![tmp] = NULL]
        /\ next_' = [next_ EXCEPT ![tmp] = NULL]
        /\ obj_' = [obj_ EXCEPT ![tmp] = NULL]
  /\ walk' = [walk EXCEPT ![t].iters = @ + 1]
  /\ UNCHANGED <<registryVars, object_list_mutex, bound_to, unbound_from,
                 affinityVars, censusVars, object_strong_ref_count_,
                 typeVars, status, pc, self, thread_kind, meshVars, warned,
                 outcome>>

\* Lines 110-116: one iteration of the weak-reference invalidation loop.
ObjectDtorWeakStep(t) ==
  /\ pc[t] = "dtor_weak"
  /\ object_weak_refs_[self[t]] # NULL
  /\ LET tmp == object_weak_refs_[self[t]]
     IN /\ object_weak_refs_' =
             [object_weak_refs_ EXCEPT ![self[t]] = next_[tmp]]
        /\ prev_' = [prev_ EXCEPT ![tmp] = NULL]
        /\ next_' = [next_ EXCEPT ![tmp] = NULL]
        /\ obj_' = [obj_ EXCEPT ![tmp] = NULL]
  /\ walk' = [walk EXCEPT ![t].iters = @ + 1]
  /\ UNCHANGED <<registryVars, object_list_mutex, bound_to, unbound_from,
                 affinityVars, censusVars, object_strong_ref_count_,
                 typeVars, status, pc, self, thread_kind, meshVars, warned,
                 outcome>>

\* Lines 110, 117: the loop ends; the destructor returns, and only now the
\* scoped_lock declared at line 83 goes out of scope.
ObjectDtorDone(t) ==
  /\ pc[t] = "dtor_weak"
  /\ object_weak_refs_[self[t]] = NULL
  /\ scoped_unlock(t)
  /\ status' = [status EXCEPT ![self[t]] = "dead"]
  /\ pc' = [pc EXCEPT ![t] = "idle"]
  /\ self' = [self EXCEPT ![t] = NULL]
  /\ walk' = [walk EXCEPT ![t] = NoWalk]
  /\ UNCHANGED <<registryVars, obj_, prev_, next_, object_weak_refs_,
                 bound_to, unbound_from, affinityVars, censusVars,
                 object_strong_ref_count_, typeVars, thread_kind, meshVars,
                 warned, outcome>>


\* ---------------------------------------------------- Object::LsObjects
NoReport == [total |-> 0, lines |-> <<>>]

\* Where LsObjects can be called from: by a thread between operations, or
\* from the body of a derived class's constructor or destructor, the vptr
\* of the object under construction or destruction pointing at that class.
LsCallSites(t) ==
  \/ pc[t] = "idle"
  \/ pc[t] \in {"ctor_derived", "dtor_base"} /\ vptr_[self[t]] > 0

\* Lines 18-20, 26-27: take the mutex, start the report with object_count,
\* start the walk at object_list_first.
LsLock(t) ==
  /\ LsCallSites(t)
  /\ scoped_lock(t)
  /\ ls_s' = [ls_s EXCEPT ![t] = [total |-> object_count, lines |-> <<>>]]
  /\ ls_count' = [ls_count EXCEPT ![t] = 0]
  /\ ls_map' = [ls_map EXCEPT ![t] = EmptyMap]
  /\ ls_o' = [ls_o EXCEPT ![t] = object_list_first]
  /\ ls_ret' = [ls_ret EXCEPT ![t] = pc[t]]
  /\ pc' = [pc EXCEPT ![t] = "ls_tally"]
  /\ UNCHANGED <<registryVars, weakVars, affinityVars, assert_failed,
                 census_in, object_strong_ref_count_, typeVars, status,
                 self, thread_kind, meshVars, warned, outcome>>

\* Lines 119-122: Object::GetObjectTypeName, the typeid demangled: the
\* name of the class the object's vptr points at when the call is made.
GetObjectTypeName(o) ==
  IF vptr_[o] = 0 THEN ObjectTypeName ELSE class_chain[o][vptr_[o]]

\* Lines 27-42: one iteration of the tally loop.
LsTally(t) ==
  /\ pc[t] = "ls_tally"
  /\ ls_o[t] # NULL
  /\ ls_count' = [ls_count EXCEPT ![t] = @ + 1]
  /\ ls_map' = [ls_map EXCEPT ![t] = TallyOne(@, GetObjectTypeName(ls_o[t]))]
  /\ ls_o' = [ls_o EXCEPT ![t] = object_next_[ls_o[t]]]
  /\ UNCHANGED <<registryVars, object_list_mutex, weakVars, affinityVars,
                 ls_s, ls_ret, census_in, assert_failed,
                 object_strong_ref_count_, typeVars, status, pc, self,
                 thread_kind, meshVars, warned, outcome>>

\* Mutant of LsScopeEnd: the lock's block extends over the call of Log.
LsScopeEnd_AfterLog(t) == UNCHANGED object_list_mutex

\* Line 56: the block holding the scoped_lock ends.
LsScopeEnd(t) == scoped_unlock(t)

\* Lines 44-56: the loop is over; sort, append the lines, assert; count and
\* obj_map go out of scope (line 55) and the lock is released (line 56).
LsReport(t) ==
  /\ pc[t] = "ls_tally"
  /\ ls_o[t] = NULL
  /\ ls_s' = [ls_s EXCEPT ![t].lines = SortedPairs(ls_map[t])]
  /\ assert_failed' = (assert_failed \/ ls_count[t] # object_count)
  /\ ls_count' = [ls_count EXCEPT ![t] = 0]
  /\ ls_map' = [ls_map EXCEPT ![t] = EmptyMap]
  /\ LsScopeEnd(t)
  /\ pc' = [pc EXCEPT ![t] = "ls_log"]
  /\ UNCHANGED <<registryVars, weakVars, affinityVars, ls_o, ls_ret,
                 census_in, object_strong_ref_count_, typeVars, status, self,
                 thread_kind, meshVars, warned, outcome>>

\* Line 57: Log(LogLevel::kInfo, s) hands the report to the logging sink;
\* the function returns to where it was called from and its locals go out
\* of scope.
LsLog(t) ==
  /\ pc[t] = "ls_log"
  /\ ls_s' = [ls_s EXCEPT ![t] = NoReport]
  /\ pc' = [pc EXCEPT ![t] = ls_ret[t]]
  /\ ls_ret' = [ls_ret EXCEPT ![t] = "idle"]
  /\ UNCHANGED <<registryVars, object_list_mutex, weakVars, affinityVars,
                 ls_count, ls_map, ls_o, census_in, assert_failed,
                 object_strong_ref_count_, typeVars, status, self,
                 thread_kind, meshVars, warned, outcome>>

\* ------------------------------------------------------ weak references
\* Binding an empty weak reference to a live object: it becomes the head of
\* the object's chain.
WeakRefBind(w, o) ==
  /\ obj_[w] = NULL
  /\ status[o] = "live"
  /\ LET head == object_weak_refs_[o]
     IN /\ prev_' = IF head # NULL THEN [prev_ EXCEPT ![head] = w, ![w] = NULL]
                    ELSE [prev_ EXCEPT ![w] = NULL]
        /\ next_' = [next_ EXCEPT ![w] = head]
  /\ obj_' = [obj_ EXCEPT ![w] = o]
  /\ object_weak_refs_' = [object_weak_refs_ EXCEPT ![o] = w]
  /\ bound_to' = [bound_to EXCEPT ![w] = o]
  /\ unbound_from' = [unbound_from EXCEPT ![w] = NULL]
  /\ UNCHANGED <<registryVars, object_list_mutex, walk, affinityVars,
                 censusVars, object_strong_ref_count_, typeVars, status, pc,
                 self, thread_kind, meshVars, warned, outcome>>

\* Unbinding a weak reference: unlinked from its chain if it is in one,
\* nothing otherwise.  Not concurrent with the referent's destruction.
WeakRefUnbind(w) ==
  /\ obj_[w] # NULL => status[obj_[w]] = "live"
  /\ IF obj_[w] # NULL
     THEN LET o == obj_[w]
              nxt == next_[w]
              prv == prev_[w]
          IN /\ prev_' = IF nxt # NULL
                         THEN [prev_ EXCEPT ![nxt] = prv, ![w] = NULL]
                         ELSE [prev_ EXCEPT ![w] = NULL]
             /\ next_' = IF prv # NULL
                         THEN [next_ EXCEPT ![prv] = nxt, ![w] = NULL]
                         ELSE [next_ EXCEPT ![w] = NULL]
             /\ object_weak_refs_' =
                  IF prv # NULL THEN object_weak_refs_
                  ELSE [object_weak_refs_ EXCEPT ![o] = nxt]
             /\ obj_' = [obj_ EXCEPT ![w] = NULL]
     ELSE UNCHANGED <<obj_, prev_, next_, object_weak_refs_>>
  /\ bound_to' = [bound_to EXCEPT ![w] = NULL]
  /\ UNCHANGED <<registryVars, object_list_mutex, walk, affinityVars,
                 censusVars, object_strong_ref_count_, typeVars, status, pc,
                 self, thread_kind, meshVars, warned, outcome>>

\* History of an unbinding: the object the weak reference is unbound from.
RecordUnbind(w) ==
  unbound_from' = IF obj_[w] # NULL
                  THEN [unbound_from EXCEPT ![w] = obj_[w]]
                  ELSE unbound_from

\* WeakRef get(): the referent, or nullptr.
WeakRefGet(w) == obj_[w]


\* ------------------------------------------------------ thread affinity
NoOutcome == [kind |-> "none", op |-> "none", result |-> "none"]

\* Object::GetThreadOwnership() (debug build).
GetThreadOwnership(o) == thread_ownership_[o]

\* The object's (virtual) GetDefaultOwnerThread(); Object's own returns
\* ThreadTag::kLogic.
GetDefaultOwnerThread(o) == default_owner[o]

\* Lines 168-169 of ObjectUpdateForAcquire: the test.
NeedsOwner(o) ==
  GetThreadOwnership(o) = "kNextReferencing" /\ owner_thread_[o] = kInvalid

\* Mutant of ObjectThreadCheckResult: the caller is always held to the
\* class default, owner_thread_ is not read.
ObjectThreadCheckResult_DefaultOnly(kind, o) ==
  IF ~thread_checks_enabled_[o] THEN "ok"
  ELSE LET tag == default_owner[o]
       IN CASE tag = "kMain" ->
                 IF kind # "main" THEN "affinity_violation" ELSE "ok"
            [] tag = "kLogic" ->
                 IF kind # "logic" THEN "affinity_violation" ELSE "ok"
            [] tag = "kAudio" ->
                 IF kind # "audio" THEN "affinity_violation" ELSE "ok"
            [] tag = "kNetworkWrite" ->
                 IF kind # "network_write" THEN "affinity_violation" ELSE "ok"
            [] tag = "kAssets" ->
                 IF kind # "assets" THEN "affinity_violation" ELSE "ok"
            [] tag = "kBGDynamics" ->
                 IF kind # "bg_dynamics" THEN "affinity_violation" ELSE "ok"
            [] OTHER -> "exception"

\* Mutant of ObjectThreadCheckResult: the caller is always held to
\* owner_thread_, the class default is not consulted.
ObjectThreadCheckResult_OwnerOnly(kind, o) ==
  IF ~thread_checks_enabled_[o] THEN "ok"
  ELSE LET tag == owner_thread_[o]
       IN CASE tag = "kMain" ->
                 IF kind # "main" THEN "affinity_violation" ELSE "ok"
            [] tag = "kLogic" ->
                 IF kind # "logic" THEN "affinity_violation" ELSE "ok"
            [] tag = "kAudio" ->
                 IF kind # "audio" THEN "affinity_violation" ELSE "ok"
            [] tag = "kNetworkWrite" ->
                 IF kind # "network_write" THEN "affinity_violation" ELSE "ok"
            [] tag = "kAssets" ->
                 IF kind # "assets" THEN "affinity_violation" ELSE "ok"
            [] tag = "kBGDynamics" ->
                 IF kind # "bg_dynamics" THEN "affinity_violation" ELSE "ok"
            [] OTHER -> "exception"

\* Mutant of ObjectThreadCheckResult: the switch's default case breaks
\* instead of throwing.
ObjectThreadCheckResult_InvalidPasses(kind, o) ==
  IF ~thread_checks_enabled_[o] THEN "ok"
  ELSE LET tag == IF GetThreadOwnership(o) = "kClassDefault"
                  THEN GetDefaultOwnerThread(o)
                  ELSE owner_thread_[o]
       IN CASE tag = "kMain" ->
                 IF kind # "main" THEN "affinity_violation" ELSE "ok"
            [] tag = "kLogic" ->
                 IF kind # "logic" THEN "affinity_violation" ELSE "ok"
            [] tag = "kAudio" ->
                 IF kind # "audio" THEN "affinity_violation" ELSE "ok"
            [] tag = "kNetworkWrite" ->
                 IF kind # "network_write" THEN "affinity_violation" ELSE "ok"
            [] tag = "kAssets" ->
                 IF kind # "assets" THEN "affinity_violation" ELSE "ok"
            [] tag = "kBGDynamics" ->
                 IF kind # "bg_dynamics" THEN "affinity_violation" ELSE "ok"
            [] OTHER -> "ok"

\* Mutant of ObjectThreadCheckResult: thread_checks_enabled_ is not
\* consulted.
ObjectThreadCheckResult_NoEarlyReturn(kind, o) ==
  IF FALSE THEN "ok"
  ELSE LET tag == IF GetThreadOwnership(o) = "kClassDefault"
                  THEN GetDefaultOwnerThread(o)
                  ELSE owner_thread_[o]
       IN CASE tag = "kMain" ->
                 IF kind # "main" THEN "affinity_violation" ELSE "ok"
            [] tag = "kLogic" ->
                 IF kind # "logic" THEN "affinity_violation" ELSE "ok"
            [] tag = "kAudio" ->
                 IF kind # "audio" THEN "affinity_violation" ELSE "ok"
            [] tag = "kNetworkWrite" ->
                 IF kind # "network_write" THEN "affinity_violation" ELSE "ok"
            [] tag = "kAssets" ->
                 IF kind # "assets" THEN "affinity_violation" ELSE "ok"
            [] tag = "kBGDynamics" ->
                 IF kind # "bg_dynamics" THEN "affinity_violation" ELSE "ok"
            [] OTHER -> "exception"

\* Lines 174-224 of ObjectThreadCheck: the early return, the tag the caller
\* is held to, and the switch over it.
ObjectThreadCheckResult(kind, o) ==
  IF ~thread_checks_enabled_[o] THEN "ok"
  ELSE LET tag == IF GetThreadOwnership(o) = "kClassDefault"
                  THEN GetDefaultOwnerThread(o)
                  ELSE owner_thread_[o]
       IN CASE tag = "kMain" ->
                 IF kind # "main" THEN "affinity_violation" ELSE "ok"
            [] tag = "kLogic" ->
                 IF kind # "logic" THEN "affinity_violation" ELSE "ok"
            [] tag = "kAudio" ->
                 IF kind # "audio" THEN "affinity_violation" ELSE "ok"
            [] tag = "kNetworkWrite" ->
                 IF kind # "network_write" THEN "affinity_violation" ELSE "ok"
            [] tag = "kAssets" ->
                 IF kind # "assets" THEN "affinity_violation" ELSE "ok"
            [] tag = "kBGDynamics" ->
                 IF kind # "bg_dynamics" THEN "affinity_violation" ELSE "ok"
            [] OTHER -> "exception"

\* Object::ObjectThreadCheck() called by thread t on a live object.
ObjectThreadCheck(t, o) ==
  /\ pc[t] = "idle"
  /\ status[o] = "live"
  /\ outcome' = [kind |-> thread_kind[t], op |-> "check",
                 result |-> ObjectThreadCheckResult(thread_kind[t], o)]
  /\ UNCHANGED <<registryVars, object_list_mutex, weakVars, affinityVars,
                 censusVars, object_strong_ref_count_, typeVars, status, pc,
                 self, thread_kind, meshVars, warned>>

\* Object::ObjectUpdateForAcquire lines 164-169, called by a thread that
\* acquires a strong reference to a live object: the mode and the owner are
\* read and tested.  Nothing is written.
RefAcquireTest(t, o) ==
  /\ pc[t] = "idle"
  /\ status[o] = "live"
  /\ object_strong_ref_count_[o] < MaxStrongRefs
  /\ pc' = [pc EXCEPT ![t] = IF NeedsOwner(o) THEN "acquire_write"
                                              ELSE "acquire_count"]
  /\ self' = [self EXCEPT ![t] = o]
  /\ UNCHANGED <<registryVars, object_list_mutex, weakVars, affinityVars,
                 censusVars, object_strong_ref_count_, typeVars,
                 status, thread_kind, meshVars, warned, outcome>>

\* Object::ObjectUpdateForAcquire lines 170-172:
\* owner_thread_ = GetCurrentThreadTag(), which throws on an unrecognized
\* thread; the exception leaves the acquisition.
RefAcquireWrite(t) ==
  /\ pc[t] = "acquire_write"
  /\ LET o == self[t]
         tag == GetCurrentThreadTag(thread_kind[t])
     IN IF tag = "throw"
        THEN /\ outcome' = [kind |-> thread_kind[t], op |-> "acquire",
                            result |-> "unrecognized_thread"]
             /\ pc' = [pc EXCEPT ![t] = "idle"]
             /\ self' = [self EXCEPT ![t] = NULL]
             /\ UNCHANGED <<owner_thread_, writes>>
        ELSE /\ owner_thread_' = [owner_thread_ EXCEPT ![o] = tag]
             /\ writes' = [writes EXCEPT ![o] = @ + 1]
             /\ pc' = [pc EXCEPT ![t] = "acquire_count"]
             /\ UNCHANGED <<self, outcome>>
  /\ UNCHANGED <<registryVars, object_list_mutex, weakVars, thread_ownership_,
                 thread_checks_enabled_, default_owner, censusVars,
                 object_strong_ref_count_, typeVars, status,
                 thread_kind, meshVars, warned>>

\* The strong reference, once ObjectUpdateForAcquire has returned, counts
\* itself: the strong count is incremented and the acquisition is over.
RefAcquireCount(t) ==
  /\ pc[t] = "acquire_count"
  /\ object_strong_ref_count_' =
       [object_strong_ref_count_ EXCEPT ![self[t]] = @ + 1]
  /\ pc' = [pc EXCEPT ![t] = "idle"]
  /\ self' = [self EXCEPT ![t] = NULL]
  /\ UNCHANGED <<registryVars, object_list_mutex, weakVars, affinityVars,
                 censusVars, typeVars, status, thread_kind, meshVars,
                 warned, outcome>>

\* Releasing a strong reference: the count goes down; nothing is destroyed.
RefRelease(t, o) ==
  /\ pc[t] = "idle"
  /\ status[o] = "live"
  /\ object_strong_ref_count_[o] > 0
  /\ object_strong_ref_count_' =
       [object_strong_ref_count_ EXCEPT ![o] = @ - 1]
  /\ UNCHANGED <<registryVars, object_list_mutex, weakVars, affinityVars,
                 censusVars, typeVars, status, pc, self, thread_kind,
                 meshVars, warned, outcome>>


\* ------------------------------------------------------------- MeshData
\* The renderer data the renderer makes for mesh m (a non-null pointer).
RendererDataOf(m) == m

\* renderer_data() has not been called.
NoAccess == [mesh |-> NULL, asserted |-> TRUE, data |-> NULL]

\* No MeshData exists yet.
InitMesh ==
  /\ renderer_data_ = [m \in Meshes |-> NULL]
  /\ mesh_status = [m \in Meshes |-> "unborn"]
  /\ mesh_last_op = [m \in Meshes |-> "none"]
  /\ mesh_leaked = {}
  /\ mesh_access = NoAccess

\* What every MeshData operation leaves alone.
objectVars == <<registryVars, object_list_mutex, weakVars, affinityVars,
                censusVars, object_strong_ref_count_, typeVars, status, pc,
                self, thread_kind, warned, outcome>>

\* mesh_data.h lines 16-17, 34: the constructor; renderer_data_ is null.
MeshDataCtor(m) ==
  /\ mesh_status[m] = "unborn"
  /\ mesh_status' = [mesh_status EXCEPT ![m] = "live"]
  /\ renderer_data_' = [renderer_data_ EXCEPT ![m] = NULL]
  /\ UNCHANGED <<mesh_last_op, mesh_leaked, mesh_access, objectVars>>

\* MeshData::Load(renderer): the renderer's data is attached, if none is.
MeshDataLoad(m) ==
  /\ mesh_status[m] = "live"
  /\ renderer_data_' =
       IF renderer_data_[m] = NULL
       THEN [renderer_data_ EXCEPT ![m] = RendererDataOf(m)]
       ELSE renderer_data_
  /\ mesh_last_op' = [mesh_last_op EXCEPT ![m] = "load"]
  /\ UNCHANGED <<mesh_status, mesh_leaked, mesh_access, objectVars>>

\* MeshData::Unload(renderer): the renderer's data, if attached, is deleted
\* and detached.
MeshDataUnload(m) ==
  /\ mesh_status[m] = "live"
  /\ renderer_data_' = [renderer_data_ EXCEPT ![m] = NULL]
  /\ mesh_last_op' = [mesh_last_op EXCEPT ![m] = "unload"]
  /\ UNCHANGED <<mesh_status, mesh_leaked, mesh_access, objectVars>>

\* mesh_data.h lines 28-31: renderer_data() asserts that the data is
\* attached (`asserted` is whether the assertion holds) and returns it.
MeshDataRendererData(m) ==
  /\ mesh_status[m] = "live"
  /\ mesh_access' = [mesh |-> m,
                     asserted |-> renderer_data_[m] # NULL,
                     data |-> renderer_data_[m]]
  /\ UNCHANGED <<renderer_data_, mesh_status, mesh_last_op, mesh_leaked,
                 objectVars>>

\* Mutant of MeshDataDtor: the test of renderer_data_ is inverted.
MeshDataDtor_LogsWhenUnloaded(m) ==
  /\ mesh_status[m] = "live"
  /\ mesh_leaked' = IF renderer_data_[m] = NULL
                    THEN mesh_leaked \cup {m} ELSE mesh_leaked
  /\ mesh_status' = [mesh_status EXCEPT ![m] = "dead"]
  /\ UNCHANGED <<renderer_data_, mesh_last_op, mesh_access, objectVars>>

\* mesh_data.h lines 18-22: the destructor logs the error if renderer_data_
\* is still set; renderer_data_ itself is left as it is.
MeshDataDtor(m) ==
  /\ mesh_status[m] = "live"
  /\ mesh_leaked' = IF renderer_data_[m] # NULL
                    THEN mesh_leaked \cup {m} ELSE mesh_leaked
  /\ mesh_status' = [mesh_status EXCEPT ![m] = "dead"]
  /\ UNCHANGED <<renderer_data_, mesh_last_op, mesh_access, objectVars>>

\* MeshData on its own: construction, loads and unloads, reads of the
\* renderer data, destruction.
NextMesh ==
  \/ \E m \in Meshes : MeshDataCtor(m)
  \/ \E m \in Meshes : MeshDataLoad(m)
  \/ \E m \in Meshes : MeshDataUnload(m)
  \/ \E m \in Meshes : MeshDataRendererData(m)
  \/ \E m \in Meshes : MeshDataDtor(m)

\* ------------------------------------------------------- specifications
\* The thread each thread id is, in the lifecycle specification.
ThreadKindSeq == <<"main", "logic", "audio", "network_write", "assets",
                   "bg_dynamics", "other">>
KindOfThread(t) == ThreadKindSeq[((t - 1) % Len(ThreadKindSeq)) + 1]

\* Everything but the affinity fields and the thread kinds: no object
\* exists yet, the registry is empty, every weak reference is empty.
InitCommon ==
  /\ object_list_first = NULL
  /\ object_count = 0
  /\ object_list_mutex = NoThread
  /\ object_prev_ = [o \in Objects |-> NULL]
  /\ object_next_ = [o \in Objects |-> NULL]
  /\ object_strong_ref_count_ = [o \in Objects |-> 0]
  /\ object_weak_refs_ = [o \in Objects |-> NULL]
  /\ class_chain = [o \in Objects |-> ClassA]
  /\ vptr_ = [o \in Objects |-> 0]
  /\ status = [o \in Objects |-> "unborn"]
  /\ obj_ = [w \in WeakRefs |-> NULL]
  /\ prev_ = [w \in WeakRefs |-> NULL]
  /\ next_ = [w \in WeakRefs |-> NULL]
  /\ bound_to = [w \in WeakRefs |-> NULL]
  /\ unbound_from = [w \in WeakRefs |-> NULL]
  /\ walk = [t \in Threads |-> NoWalk]
  /\ InitMesh
  /\ pc = [t \in Threads |-> "idle"]
  /\ self = [t \in Threads |-> NULL]
  /\ ls_count = [t \in Threads |-> 0]
  /\ ls_map = [t \in Threads |-> EmptyMap]
  /\ ls_s = [t \in Threads |-> NoReport]
  /\ ls_o = [t \in Threads |-> NULL]
  /\ ls_ret = [t \in Threads |-> "idle"]
  /\ warned = {}
  /\ assert_failed = FALSE
  /\ outcome = NoOutcome
  /\ writes = [o \in Objects |-> 0]

\* Object's defaults for the affinity fields: class-default ownership, no
\* owner yet, checks enabled, the logic thread as default owner.
InitDefaults ==
  /\ thread_kind = [t \in Threads |-> KindOfThread(t)]
  /\ thread_ownership_ = [o \in Objects |-> "kClassDefault"]
  /\ owner_thread_ = [o \in Objects |-> kInvalid]
  /\ thread_checks_enabled_ = [o \in Objects |-> TRUE]
  /\ default_owner = [o \in Objects |-> "kLogic"]

\* Lifecycle: no object exists yet; objects with Object's default affinity
\* fields are constructed, referenced and destroyed by threads running
\* concurrently.
Init ==
  /\ InitCommon
  /\ InitDefaults
  /\ census_in = <<>>

\* Objects with strong and weak references: construction, destruction,
\* binding and unbinding of weak references, acquisition and release of
\* strong references.
Next ==
  \/ \E t \in Threads, o \in 1..NumRefObjects :
       ObjectCtorLock(t, o, ClassA)
  \/ \E t \in Threads : ObjectCtorSplice(t)
  \/ \E t \in Threads : ObjectCtorCount(t)
  \/ \E t \in Threads : DerivedCtor(t)
  \/ \E t \in Threads, o \in Objects : DerivedDtor(t, o)
  \/ \E t \in Threads, o \in Objects : ObjectDtorLock(t, o)
  \/ \E t \in Threads : ObjectDtorUnsplice(t)
  \/ \E t \in Threads : ObjectDtorWarn(t)
  \/ \E t \in Threads : ObjectDtorWeakStep(t)
  \/ \E t \in Threads : ObjectDtorDone(t)
  \/ \E w \in WeakRefs, o \in Objects : WeakRefBind(w, o)
  \/ \E w \in WeakRefs : WeakRefUnbind(w) /\ UNCHANGED unbound_from
  \/ \E t \in Threads, o \in Objects : RefAcquireTest(t, o)
  \/ \E t \in Threads : RefAcquireCount(t)
  \/ \E t \in Threads, o \in Objects : RefRelease(t, o)

Spec == Init /\ [][Next]_vars

\* The registry under concurrency: objects are constructed and destroyed
\* while censuses run; no reference to them is taken, so each destructor
\* finds a zero count and an empty weak chain.
NextRegistry ==
  \/ \E t \in Threads, o \in Objects : ObjectCtorLock(t, o, ClassA)
  \/ \E t \in Threads : ObjectCtorSplice(t)
  \/ \E t \in Threads : ObjectCtorCount(t)
  \/ \E t \in Threads : DerivedCtor(t)
  \/ \E t \in Threads, o \in Objects : DerivedDtor(t, o)
  \/ \E t \in Threads, o \in Objects : ObjectDtorLock(t, o)
  \/ \E t \in Threads : ObjectDtorUnsplice(t)
  \/ \E t \in Threads : ObjectDtorWarn(t)
  \/ \E t \in Threads : ObjectDtorDone(t)
  \/ \E t \in Threads : LsLock(t)
  \/ \E t \in Threads : LsTally(t)
  \/ \E t \in Threads : LsReport(t)
  \/ \E t \in Threads : LsLog(t)

SpecRegistry == Init /\ [][NextRegistry]_vars

\* Objects of a class derived from a class derived from Object are
\* constructed and destroyed while censuses run, called by other threads
\* or from the bodies of the constructors and the destructors.
NextClasses ==
  \/ \E t \in Threads, o \in 1..NumRefObjects : ObjectCtorLock(t, o, ClassB)
  \/ \E t \in Threads : ObjectCtorSplice(t)
  \/ \E t \in Threads : ObjectCtorCount(t)
  \/ \E t \in Threads : DerivedCtor(t)
  \/ \E t \in Threads, o \in Objects : DerivedDtor(t, o)
  \/ \E t \in Threads, o \in Objects : ObjectDtorLock(t, o)
  \/ \E t \in Threads : ObjectDtorUnsplice(t)
  \/ \E t \in Threads : ObjectDtorWarn(t)
  \/ \E t \in Threads : ObjectDtorDone(t)
  \/ \E t \in Threads : LsLock(t)
  \/ \E t \in Threads : LsTally(t)
  \/ \E t \in Threads : LsReport(t)
  \/ \E t \in Threads : LsLog(t)

SpecClasses == Init /\ [][NextClasses]_vars

\* Objects with strong references only: each destructor finds the count the
\* acquisitions and releases left and an empty weak chain.
NextStrong ==
  \/ \E t \in Threads, o \in 1..NumRefObjects : ObjectCtorLock(t, o, ClassA)
  \/ \E t \in Threads : ObjectCtorSplice(t)
  \/ \E t \in Threads : ObjectCtorCount(t)
  \/ \E t \in Threads : DerivedCtor(t)
  \/ \E t \in Threads, o \in Objects : DerivedDtor(t, o)
  \/ \E t \in Threads, o \in Objects : ObjectDtorLock(t, o)
  \/ \E t \in Threads : ObjectDtorUnsplice(t)
  \/ \E t \in Threads : ObjectDtorWarn(t)
  \/ \E t \in Threads : ObjectDtorDone(t)
  \/ \E t \in Threads, o \in Objects : RefAcquireTest(t, o)
  \/ \E t \in Threads : RefAcquireCount(t)
  \/ \E t \in Threads, o \in Objects : RefRelease(t, o)

SpecStrong == Init /\ [][NextStrong]_vars

\* Destruction of objects that weak references are bound to: the derived
\* part is torn down, then Object::~Object runs.  The history of the
\* unbindings is kept.
NextTeardown ==
  \/ \E t \in Threads, o \in 1..NumRefObjects :
       ObjectCtorLock(t, o, ClassA)
  \/ \E t \in Threads : ObjectCtorSplice(t)
  \/ \E t \in Threads : ObjectCtorCount(t)
  \/ \E t \in Threads : DerivedCtor(t)
  \/ \E t \in Threads, o \in Objects : DerivedDtor(t, o)
  \/ \E t \in Threads, o \in Objects : ObjectDtorLock(t, o)
  \/ \E t \in Threads : ObjectDtorUnsplice(t)
  \/ \E t \in Threads : ObjectDtorWarn(t)
  \/ \E t \in Threads : ObjectDtorWeakStep(t)
  \/ \E t \in Threads : ObjectDtorDone(t)
  \/ \E w \in WeakRefs, o \in Objects : WeakRefBind(w, o)
  \/ \E w \in WeakRefs : WeakRefUnbind(w) /\ RecordUnbind(w)

SpecTeardown == Init /\ [][NextTeardown]_vars

\* The destructor's loop: objects that weak references are bound to and
\* unbound from are constructed and destroyed, each thread that is in the
\* loop going on running (the loop takes no lock and waits for nothing).
NextWalk ==
  \/ \E t \in Threads, o \in 1..NumRefObjects :
       ObjectCtorLock(t, o, ClassA)
  \/ \E t \in Threads : ObjectCtorSplice(t)
  \/ \E t \in Threads : ObjectCtorCount(t)
  \/ \E t \in Threads : DerivedCtor(t)
  \/ \E t \in Threads, o \in Objects : DerivedDtor(t, o)
  \/ \E t \in Threads, o \in Objects : ObjectDtorLock(t, o)
  \/ \E t \in Threads : ObjectDtorUnsplice(t)
  \/ \E t \in Threads : ObjectDtorWarn(t)
  \/ \E t \in Threads : ObjectDtorWeakStep(t)
  \/ \E t \in Threads : ObjectDtorDone(t)
  \/ \E w \in WeakRefs, o \in Objects : WeakRefBind(w, o)
  \/ \E w \in WeakRefs : WeakRefUnbind(w) /\ UNCHANGED unbound_from

SpecWalk ==
  /\ Init
  /\ [][NextWalk]_vars
  /\ \A t \in Threads : WF_vars(ObjectDtorWeakStep(t) \/ ObjectDtorDone(t))

\* -------------------------------------------------- the census on its own
\* Lines 26-42: the tally loop over the type names met along the list.
RECURSIVE TallyAll(_, _)
TallyAll(names, m) ==
  IF names = <<>> THEN m
  ELSE TallyAll(Tail(names), TallyOne(m, Head(names)))

\* Lines 19-53: the report LsObjects builds for a list whose nodes have
\* these type names, object_count being `count`.
LsObjectsReport(names, count) ==
  [total |-> count, lines |-> SortedPairs(TallyAll(names, EmptyMap))]

\* Sequences of type names of length at most n.
RECURSIVE NameSeqs(_)
NameSeqs(n) ==
  IF n = 0 THEN {<<>>}
  ELSE LET shorter == NameSeqs(n - 1)
       IN shorter \cup {Append(q, x) : q \in {r \in shorter : Len(r) = n - 1},
                                       x \in TypeNames}

\* A census by thread t of a registry holding live objects with the type
\* names census_in, nothing else running: lines 14-56 in one step.
LsObjectsAlone(t) ==
  /\ pc[t] = "idle"
  /\ ls_s[t] = NoReport
  /\ ls_s' = [ls_s EXCEPT ![t] = LsObjectsReport(census_in, Len(census_in))]
  /\ pc' = [pc EXCEPT ![t] = "ls_log"]
  /\ UNCHANGED <<registryVars, object_list_mutex, weakVars, affinityVars,
                 ls_count, ls_map, ls_o, ls_ret, census_in, assert_failed,
                 object_strong_ref_count_, typeVars, status, self,
                 thread_kind, meshVars, warned, outcome>>

\* The census as a function of the live objects' type names.
InitCensus ==
  /\ InitCommon
  /\ InitDefaults
  /\ census_in \in NameSeqs(MaxCensusLen)

NextCensus ==
  \/ \E t \in Threads : LsObjectsAlone(t)
  \/ \E t \in Threads : LsLog(t)

SpecCensus == InitCensus /\ [][NextCensus]_vars

\* ------------------------------------------------- affinity on its own
\* The affinity fields an object can have once constructed: class-default
\* ownership with the type's default owner, next-referencing ownership with
\* no owner yet, or an owner fixed at construction.
AffinityConfigs ==
  {[mode |-> "kClassDefault", owner |-> kInvalid, default |-> d] :
     d \in ThreadTags}
  \cup {[mode |-> "kNextReferencing", owner |-> kInvalid,
         default |-> "kLogic"]}
  \cup {[mode |-> "kFixedThread", owner |-> r, default |-> "kLogic"] :
          r \in ThreadTags}

\* One object has been constructed (the first address, alone in the
\* registry) with any affinity fields, checks enabled or not; the threads
\* are any of the recognized threads, each of which exists once, or
\* unrecognized ones.
InitAffinity ==
  /\ object_list_first = 1
  /\ object_count = 1
  /\ object_list_mutex = NoThread
  /\ object_prev_ = [o \in Objects |-> NULL]
  /\ object_next_ = [o \in Objects |-> NULL]
  /\ object_strong_ref_count_ = [o \in Objects |-> 0]
  /\ object_weak_refs_ = [o \in Objects |-> NULL]
  /\ class_chain = [o \in Objects |-> ClassA]
  /\ vptr_ = [o \in Objects |-> IF o = 1 THEN 1 ELSE 0]
  /\ status = [o \in Objects |-> IF o = 1 THEN "live" ELSE "unborn"]
  /\ obj_ = [w \in WeakRefs |-> NULL]
  /\ prev_ = [w \in WeakRefs |-> NULL]
  /\ next_ = [w \in WeakRefs |-> NULL]
  /\ bound_to = [w \in WeakRefs |-> NULL]
  /\ unbound_from = [w \in WeakRefs |-> NULL]
  /\ walk = [t \in Threads |-> NoWalk]
  /\ InitMesh
  /\ pc = [t \in Threads |-> "idle"]
  /\ self = [t \in Threads |-> NULL]
  /\ ls_count = [t \in Threads |-> 0]
  /\ ls_map = [t \in Threads |-> EmptyMap]
  /\ ls_s = [t \in Threads |-> NoReport]
  /\ ls_o = [t \in Threads |-> NULL]
  /\ ls_ret = [t \in Threads |-> "idle"]
  /\ census_in = <<>>
  /\ warned = {}
  /\ assert_failed = FALSE
  /\ outcome = NoOutcome
  /\ writes = [o \in Objects |-> 0]
  /\ thread_kind \in [Threads -> ThreadKinds]
  /\ \A t, u \in Threads :
       (t # u /\ thread_kind[t] = thread_kind[u]) => thread_kind[t] = "other"
  /\ \E c \in AffinityConfigs :
       /\ thread_ownership_ = [o \in Objects |-> c.mode]
       /\ owner_thread_ = [o \in Objects |-> c.owner]
       /\ default_owner = [o \in Objects |-> c.default]
  /\ \E b \in BOOLEAN : thread_checks_enabled_ = [o \in Objects |-> b]

\* Acquisitions, releases and checks made by threads running concurrently:
\* object.cc takes no lock in ObjectUpdateForAcquire and ObjectThreadCheck.
NextRace ==
  \/ \E t \in Threads, o \in Objects : RefAcquireTest(t, o)
  \/ \E t \in Threads : RefAcquireWrite(t)
  \/ \E t \in Threads : RefAcquireCount(t)
  \/ \E t \in Threads, o \in Objects : RefRelease(t, o)
  \/ \E t \in Threads, o \in Objects : ObjectThreadCheck(t, o)

SpecRace == InitAffinity /\ [][NextRace]_vars

SpecMesh == Init /\ [][NextMesh]_vars

\* ---------------------------------------------------------------- claims
SeqToSet(q) == {q[i] : i \in 1..Len(q)}
NoDuplicates(q) == \A i, j \in 1..Len(q) : i # j => q[i] # q[j]
\* The objects whose Object part is alive: Object::Object has returned and
\* Object::~Object has not been entered.
LivePhases == {"deriving", "live", "derived_gone"}
LiveObjects == {o \in Objects : status[o] \in LivePhases}
DtorPcs == {"dtor_unsplice", "dtor_warn", "dtor_weak"}

\* C1: a weak reference bound to O refers to O while O is live; once O's
\* destructor has completed, every weak reference that was bound to O has a
\* null referent and null prev/next links, no weak reference points at O,
\* and O's chain is empty.
C1_WeakRefsFollowLifetime ==
  /\ \A w \in WeakRefs :
       bound_to[w] # NULL =>
         /\ status[bound_to[w]] = "live" => WeakRefGet(w) = bound_to[w]
         /\ status[bound_to[w]] = "dead" =>
              WeakRefGet(w) = NULL /\ prev_[w] = NULL /\ next_[w] = NULL
  /\ \A w \in WeakRefs : obj_[w] # NULL => status[obj_[w]] # "dead"
  /\ \A o \in Objects : status[o] = "dead" => object_weak_refs_[o] = NULL

\* C1 witness: an object was destroyed while every weak reference was bound
\* to it.
C1_Witness ==
  \E o \in Objects :
    status[o] = "dead" /\ \A w \in WeakRefs : bound_to[w] = o

\* C2: the destructor of an object with N outstanding strong references
\* always can take its next step, whatever N; once it has completed, the
\* warning was printed iff N > 0, and it is never printed for N = 0.
C2_WarningIffNonZeroCount ==
  /\ \A o \in Objects :
       /\ status[o] = "dead" =>
            (o \in warned <=> object_strong_ref_count_[o] > 0)
       /\ o \in warned => object_strong_ref_count_[o] > 0
  /\ \A t \in Threads :
       pc[t] \in DtorPcs =>
         ENABLED (\/ ObjectDtorUnsplice(t) \/ ObjectDtorWarn(t)
                  \/ ObjectDtorWeakStep(t) \/ ObjectDtorDone(t))

\* C2 witness: one object died with a strong reference outstanding and was
\* warned about, another died with none and was not.
C2_Witness ==
  \E o, p \in Objects :
    /\ status[o] = "dead" /\ object_strong_ref_count_[o] > 0 /\ o \in warned
    /\ status[p] = "dead" /\ object_strong_ref_count_[p] = 0
    /\ p \notin warned

\* C9 (as claimed): the destroying thread does not hold the registry mutex
\* while it emits the non-zero-count warning nor while it invalidates a
\* weak reference.
C9_LockReleasedBeforeWarningAndWalk ==
  \A t \in Threads :
    (\/ pc[t] = "dtor_warn" /\ object_strong_ref_count_[self[t]] # 0
     \/ pc[t] = "dtor_weak" /\ object_weak_refs_[self[t]] # NULL)
    => object_list_mutex # t


\* The position of node o in the live list (Len + 1 for nullptr, the end).
PositionInList(o) ==
  IF o = NULL THEN Len(LiveList) + 1
  ELSE CHOOSE i \in 1..Len(LiveList) : LiveList[i] = o

RECURSIVE SumCounts(_, _)
SumCounts(m, names) ==
  IF names = {} THEN 0
  ELSE LET n == CHOOSE x \in names : TRUE
       IN m[n] + SumCounts(m, names \ {n})

\* C6: whatever other threads construct, destroy or census meanwhile,
\* a census in progress walks a list holding exactly the live objects, each
\* once; what it has counted so far is exactly the nodes before its
\* position, so its final count equals object_count and the number of live
\* objects, and assert(count == object_count) never fails.
C6_CensusSeesExactlyTheLiveObjects ==
  /\ ~assert_failed
  /\ \A t \in Threads :
       pc[t] = "ls_tally" =>
         /\ object_list_mutex = t
         /\ NoDuplicates(LiveList)
         /\ SeqToSet(LiveList) = LiveObjects
         /\ Len(LiveList) = object_count
         /\ ls_o[t] # NULL => ls_o[t] \in SeqToSet(LiveList)
         /\ ls_count[t] = PositionInList(ls_o[t]) - 1
         /\ SumCounts(ls_map[t], DOMAIN ls_map[t]) = ls_count[t]
         /\ ls_s[t].total = Cardinality(LiveObjects)

\* C6 witness: after constructions and a destruction, one thread is in the
\* middle of its walk (one node counted, more to come) while another thread
\* has a census of its own under way.
C6_Witness ==
  \E t, u \in Threads :
    /\ t # u
    /\ pc[t] = "ls_tally" /\ ls_count[t] = 1 /\ ls_o[t] # NULL
    /\ pc[u] = "ls_log"
    /\ \E o \in Objects : status[o] = "dead"

\* C7: whenever the registry mutex is free, object_count is the number of
\* nodes reachable from object_list_first, those nodes are exactly the live
\* objects, none twice, the head's object_prev_ is null and every node is
\* the object_prev_ of its successor.
C7_RegistryConsistentWhenUnlocked ==
  object_list_mutex = NoThread =>
    /\ object_count = Len(LiveList)
    /\ SeqToSet(LiveList) = LiveObjects
    /\ NoDuplicates(LiveList)
    /\ object_list_first # NULL => object_prev_[object_list_first] = NULL
    /\ \A n \in SeqToSet(LiveList) :
         object_next_[n] # NULL => object_prev_[object_next_[n]] = n

\* C7 witness: the mutex is free, two objects are linked in the list and
\* one that used to be between or beside them has been destroyed.
C7_Witness ==
  /\ object_list_mutex = NoThread
  /\ Len(LiveList) = 2
  /\ \E o \in Objects : status[o] = "dead"

RECURSIVE SumLines(_)
SumLines(lines) ==
  IF lines = <<>> THEN 0 ELSE Head(lines)[1] + SumLines(Tail(lines))

\* C10: a thread about to call Log with its census report does not hold the
\* registry mutex, and the report it holds is already complete: its lines,
\* built under the lock, account for every object of its total.
C10_LogCalledOutsideTheLock ==
  \A t \in Threads :
    pc[t] = "ls_log" =>
      /\ object_list_mutex # t
      /\ SumLines(ls_s[t].lines) = ls_s[t].total

\* C10 witness: a thread is about to log a non-empty report while another
\* thread holds the mutex for a census of its own.
C10_Witness ==
  \E t, u \in Threads :
    /\ pc[t] = "ls_log" /\ Len(ls_s[t].lines) > 0
    /\ pc[u] = "ls_tally" /\ object_list_mutex = u

\* The number of live objects of type n, for a census run alone.
Occurrences(n) == Cardinality({i \in 1..Len(census_in) : census_in[i] = n})

\* Alphabetical rank of a one-letter type name: its character code.
NameRank(n) == n[1]

\* C5: the report lists each type name of the live objects exactly once,
\* with its exact number of instances, the total being the number of live
\* objects, in descending order of count and, for equal counts, in
\* descending order of name; for {A: 3, B: 1, C: 3} the lines are C 3, A 3,
\* B 1.
C5_CensusReport ==
  \A t \in Threads :
    pc[t] = "ls_log" =>
      LET lines == ls_s[t].lines
      IN /\ ls_s[t].total = Len(census_in)
         /\ {lines[i][2] : i \in 1..Len(lines)} = SeqToSet(census_in)
         /\ \A i, j \in 1..Len(lines) : i # j => lines[i][2] # lines[j][2]
         /\ \A i \in 1..Len(lines) : lines[i][1] = Occurrences(lines[i][2])
         /\ \A i, j \in 1..Len(lines) :
              i < j =>
                \/ lines[i][1] > lines[j][1]
                \/ /\ lines[i][1] = lines[j][1]
                   /\ NameRank(lines[i][2]) > NameRank(lines[j][2])
         /\ (Occurrences(<<65>>) = 3 /\ Occurrences(<<66>>) = 1
             /\ Occurrences(<<67>>) = 3 /\ Len(census_in) = 7)
            => lines = << <<3, <<67>>>>, <<3, <<65>>>>, <<1, <<66>>>> >>

\* C5 witness: the census of three A, one B and three C has been reported.
C5_Witness ==
  \E t \in Threads :
    /\ pc[t] = "ls_log"
    /\ Occurrences(<<65>>) = 3 /\ Occurrences(<<66>>) = 1
    /\ Occurrences(<<67>>) = 3 /\ Len(census_in) = 7
    /\ ls_s[t].total = 7 /\ Len(ls_s[t].lines) = 3

\* The role tag of each recognized thread; an unrecognized thread has none.
RoleTag(kind) ==
  CASE kind = "main" -> "kMain"
    [] kind = "logic" -> "kLogic"
    [] kind = "audio" -> "kAudio"
    [] kind = "network_write" -> "kNetworkWrite"
    [] kind = "assets" -> "kAssets"
    [] kind = "bg_dynamics" -> "kBGDynamics"
    [] OTHER -> "none"

\* What a check made from a thread of this kind must give on an object held
\* to the role `owner`.
Expected(kind, owner) ==
  IF RoleTag(kind) = owner THEN "ok" ELSE "affinity_violation"

\* The acquisitions of C3, on a next-referencing object with checks
\* enabled: the write a thread of role R makes on the still unbound object
\* sets the owner to R, no acquisition on such an object is counted without
\* the object being bound, and a bound owner stays.
C3_Binding ==
  /\ \A t \in Threads :
       (/\ pc[t] = "acquire_write" /\ pc'[t] = "acquire_count"
        /\ owner_thread_[self[t]] = kInvalid)
       => owner_thread_'[self[t]] = RoleTag(thread_kind[t])
  /\ \A o \in Objects :
       (thread_ownership_[o] = "kNextReferencing" /\ thread_checks_enabled_[o])
       => /\ object_strong_ref_count_'[o] > object_strong_ref_count_[o]
               => owner_thread_[o] # kInvalid
          /\ owner_thread_[o] # kInvalid
               => owner_thread_'[o] = owner_thread_[o]

\* C3 (as claimed, for an object whose thread checks are enabled): the
\* first acquisition from role R binds a next-referencing object to R for
\* good, through any later acquisitions and checks; from then on every
\* check from a role other than R fails with an affinity violation and
\* every check from R succeeds.
C3_FirstAcquirerOwns ==
  /\ [](\A o \in Objects :
          (/\ status[o] = "live"
           /\ thread_ownership_[o] = "kNextReferencing"
           /\ owner_thread_[o] # kInvalid
           /\ thread_checks_enabled_[o])
          => \A k \in ThreadKinds :
               ObjectThreadCheckResult(k, o) = Expected(k, owner_thread_[o]))
  /\ [][C3_Binding]_vars

\* C4 (as claimed): on an object constructed with a fixed role R, a check
\* from any role other than R fails with an affinity violation, acquisition
\* or not, and a check from R succeeds.
C4_FixedRoleChecked ==
  \A o \in Objects :
    (status[o] = "live" /\ thread_ownership_[o] = "kFixedThread")
    => /\ owner_thread_[o] \in ThreadTags
       /\ \A k \in ThreadKinds :
            ObjectThreadCheckResult(k, o) = Expected(k, owner_thread_[o])

\* C4 (amended): on an object constructed with a fixed role R, while its
\* thread checks are enabled, a check from any role other than R fails with
\* an affinity violation, acquisition or not, and a check from R succeeds;
\* the required role R and the mode never change.
C4_FixedRoleCheckedWhenEnabled ==
  /\ [](\A o \in Objects :
          (status[o] = "live" /\ thread_ownership_[o] = "kFixedThread")
          => /\ owner_thread_[o] \in ThreadTags
             /\ thread_checks_enabled_[o] =>
                  \A k \in ThreadKinds :
                    ObjectThreadCheckResult(k, o)
                      = Expected(k, owner_thread_[o]))
  /\ [][\A o \in Objects :
          thread_ownership_[o] = "kFixedThread" =>
            /\ owner_thread_'[o] = owner_thread_[o]
            /\ thread_ownership_'[o] = thread_ownership_[o]]_vars

\* C4 witness: a check from another role has failed on a fixed-role object
\* with checks enabled that holds no strong reference and was never bound
\* by an acquisition.
C4_Witness ==
  \E o \in Objects :
    /\ status[o] = "live"
    /\ thread_ownership_[o] = "kFixedThread"
    /\ thread_checks_enabled_[o]
    /\ object_strong_ref_count_[o] = 0 /\ writes[o] = 0
    /\ outcome.op = "check" /\ outcome.result = "affinity_violation"
    /\ RoleTag(outcome.kind) # owner_thread_[o]

\* C8 (as claimed): under any interleaving of acquisitions and checks,
\* owner_thread_ is written at most once per object and, once a valid role,
\* never changes.
C8_OwnerWrittenAtMostOnce ==
  [][\A o \in Objects :
       /\ owner_thread_[o] # kInvalid => owner_thread_'[o] = owner_thread_[o]
       /\ writes'[o] <= 1]_vars

\* A weak reference in the empty state: no referent, no links.
EmptyWeakRef(w) == obj_[w] = NULL /\ prev_[w] = NULL /\ next_[w] = NULL

\* No object's chain leads to w.
Detached(w) == \A o \in Objects : w \notin SeqToSet(WeakChain(o))

\* The steps of C11: unbinding an unbound weak reference changes no weak
\* reference and no chain; a step of O's destructor that advances O's chain
\* visits a weak reference bound to O and leaves every weak reference not
\* bound to O as it was.
C11_Steps ==
  /\ \A w \in WeakRefs :
       (obj_[w] = NULL /\ WeakRefUnbind(w))
       => UNCHANGED <<obj_, prev_, next_, object_weak_refs_>>
  /\ \A o \in Objects :
       (status[o] = "destroying"
        /\ object_weak_refs_'[o] # object_weak_refs_[o])
       => /\ obj_[object_weak_refs_[o]] = o
          /\ \A w \in WeakRefs :
               obj_[w] # o =>
                 /\ obj_'[w] = obj_[w]
                 /\ prev_'[w] = prev_[w]
                 /\ next_'[w] = next_[w]

\* C11: a weak reference bound to O, then unbound, is in the empty state,
\* as one never bound is, and stays so through O's destruction; unbinding
\* an unbound weak reference changes nothing; O's destructor visits only
\* the weak references bound to O and modifies no other; once O is
\* destroyed every weak reference that was still bound to it is empty too.
C11_UnbindRoundTrip ==
  /\ [](\A w \in WeakRefs :
          /\ obj_[w] = NULL => EmptyWeakRef(w)
          /\ (bound_to[w] = NULL /\ unbound_from[w] # NULL)
             => EmptyWeakRef(w) /\ Detached(w)
          /\ (bound_to[w] # NULL /\ status[bound_to[w]] = "dead")
             => EmptyWeakRef(w) /\ Detached(w))
  /\ [][C11_Steps]_vars

\* C11 witness: O has been destroyed after one weak reference was bound to
\* it and unbound again, while another was still bound to it.
C11_Witness ==
  \E o \in Objects, w, v \in WeakRefs :
    /\ status[o] = "dead"
    /\ unbound_from[w] = o /\ bound_to[w] = NULL /\ EmptyWeakRef(w)
    /\ bound_to[v] = o /\ EmptyWeakRef(v)

\* The derived part of o has been torn down and o's destruction is not yet
\* complete.
DerivedTornDown(o) == status[o] \in {"derived_gone", "destroying"}

\* C12 (as claimed): while an object is being destroyed, once its derived
\* part has been torn down no weak reference returns the object as its
\* referent.
C12_InvalidatedBeforeDerivedTeardown ==
  \A o \in Objects, w \in WeakRefs :
    DerivedTornDown(o) => WeakRefGet(w) # o

\* C13 (as claimed): on a class-default object every check made has
\* succeeded iff the caller was on the type's default role, whatever the
\* owner field and the acquisitions made so far.
C13_ClassDefaultChecked ==
  \A o \in Objects :
    (/\ status[o] = "live"
     /\ thread_ownership_[o] = "kClassDefault"
     /\ outcome.op = "check")
    => outcome.result = Expected(outcome.kind, GetDefaultOwnerThread(o))

\* C13 (amended): on a class-default object, while its thread checks are
\* enabled, a check succeeds iff the caller is on the type's default role
\* and fails with an affinity violation otherwise; no acquisition, release
\* or check writes the owner field or changes the mode or the default role,
\* so the result depends on none of them.
C13_ClassDefaultCheckedWhenEnabled ==
  /\ [](\A o \in Objects :
          (/\ status[o] = "live"
           /\ thread_ownership_[o] = "kClassDefault"
           /\ thread_checks_enabled_[o])
          => \A k \in ThreadKinds :
               ObjectThreadCheckResult(k, o)
                 = Expected(k, GetDefaultOwnerThread(o)))
  /\ [][\A o \in Objects :
          thread_ownership_[o] = "kClassDefault" =>
            /\ owner_thread_'[o] = owner_thread_[o]
            /\ writes'[o] = 0
            /\ thread_ownership_'[o] = thread_ownership_[o]
            /\ default_owner'[o] = default_owner[o]]_vars

\* C13 witness: on a class-default object whose type overrides the default
\* role and on which a strong reference is held, a check from the default
\* role has succeeded.
C13_Witness ==
  \E o \in Objects :
    /\ status[o] = "live"
    /\ thread_ownership_[o] = "kClassDefault"
    /\ thread_checks_enabled_[o]
    /\ default_owner[o] # "kLogic"
    /\ object_strong_ref_count_[o] > 0
    /\ outcome.op = "check" /\ outcome.result = "ok"
    /\ RoleTag(outcome.kind) = default_owner[o]

\* Results of ObjectThreadCheck that are a thrown exception.
CheckFailures == {"affinity_violation", "exception"}

\* Every change of an owner_thread_ is the write of a recognized thread
\* completing an acquisition, and sets the owner to that thread's role.
OwnerChangesAttributed ==
  \A o \in Objects :
    owner_thread_'[o] # owner_thread_[o] =>
      \E t \in Threads :
        /\ pc[t] = "acquire_write" /\ self[t] = o
        /\ RoleTag(thread_kind[t]) # "none"
        /\ owner_thread_'[o] = RoleTag(thread_kind[t])

\* C14 (as claimed): every acquisition and every check made from an
\* unrecognized thread ends in an exception, for every ownership mode, and
\* no owner role is ever attributed to an unrecognized thread.
C14_UnrecognizedThreadFatal ==
  [][/\ \A t \in Threads :
          thread_kind[t] = "other" =>
            /\ \A o \in Objects :
                 RefAcquireTest(t, o) => pc'[t] = "acquire_write"
            /\ RefAcquireWrite(t) =>
                 /\ outcome'.op = "acquire"
                 /\ outcome'.result = "unrecognized_thread"
                 /\ pc'[t] = "idle"
                 /\ UNCHANGED <<owner_thread_, object_strong_ref_count_>>
            /\ ~RefAcquireCount(t)
            /\ \A o \in Objects :
                 ObjectThreadCheck(t, o) => outcome'.result \in CheckFailures
     /\ OwnerChangesAttributed]_vars

\* C14 (amended): made from an unrecognized thread, an acquisition that has
\* to bind the object (next-referencing mode, owner still invalid) ends in
\* the unrecognized-thread exception without taking the reference, and a
\* check ends in an exception for every ownership mode and owner while the
\* object's thread checks are enabled; no acquisition or check changes an
\* owner role except a recognized thread's binding acquisition, so an
\* unbound object stays unbound.
C14_UnrecognizedThreadFatalWhenConsulted ==
  [][/\ \A t \in Threads :
          thread_kind[t] = "other" =>
            /\ \A o \in Objects :
                 (NeedsOwner(o) /\ RefAcquireTest(t, o)) =>
                   pc'[t] = "acquire_write"
            /\ RefAcquireWrite(t) =>
                 /\ outcome'.op = "acquire"
                 /\ outcome'.result = "unrecognized_thread"
                 /\ pc'[t] = "idle"
                 /\ UNCHANGED <<owner_thread_, object_strong_ref_count_>>
            /\ \A o \in Objects :
                 (thread_checks_enabled_[o] /\ ObjectThreadCheck(t, o)) =>
                   outcome'.result \in CheckFailures
     /\ OwnerChangesAttributed]_vars

\* C14 witness: the acquisition an unrecognized thread attempted on an
\* unbound next-referencing object has thrown; the object is still unbound
\* and holds no strong reference.
C14_Witness ==
  \E o \in Objects :
    /\ status[o] = "live"
    /\ thread_ownership_[o] = "kNextReferencing"
    /\ outcome = [kind |-> "other", op |-> "acquire",
                  result |-> "unrecognized_thread"]
    /\ owner_thread_[o] = kInvalid
    /\ writes[o] = 0
    /\ object_strong_ref_count_[o] = 0

\* C18 (as claimed): on a next-referencing object still unbound, every
\* check made has thrown the bare exception, whatever the caller's role.
C18_UnboundCheckThrows ==
  \A o \in Objects :
    (/\ status[o] = "live"
     /\ thread_ownership_[o] = "kNextReferencing"
     /\ owner_thread_[o] = kInvalid
     /\ outcome.op = "check")
    => outcome.result = "exception"

\* C18 (amended): on a next-referencing object still unbound, while its
\* thread checks are enabled, a check from every thread throws the bare
\* exception; a check leaves the object unbound, and only a thread
\* completing an acquisition binds it.
C18_UnboundCheckThrowsWhenEnabled ==
  /\ [](\A o \in Objects :
          (/\ status[o] = "live"
           /\ thread_ownership_[o] = "kNextReferencing"
           /\ owner_thread_[o] = kInvalid
           /\ thread_checks_enabled_[o])
          => \A k \in ThreadKinds : ObjectThreadCheckResult(k, o) = "exception")
  /\ [][/\ \A t \in Threads, o \in Objects :
            ObjectThreadCheck(t, o) => UNCHANGED <<owner_thread_, writes>>
        /\ \A o \in Objects :
             (owner_thread_[o] = kInvalid /\ owner_thread_'[o] # kInvalid)
             => \E t \in Threads :
                  /\ pc[t] = "acquire_write" /\ self[t] = o
                  /\ pc'[t] = "acquire_count"]_vars

\* C18 witness: a check made on the unbound object from role R threw the
\* bare exception, and the object has since been bound to R by an
\* acquisition (once bound, no check throws the bare exception).
C18_Witness ==
  \E o \in Objects :
    /\ status[o] = "live"
    /\ thread_ownership_[o] = "kNextReferencing"
    /\ thread_checks_enabled_[o]
    /\ outcome.op = "check" /\ outcome.result = "exception"
    /\ writes[o] = 1
    /\ owner_thread_[o] = RoleTag(outcome.kind)

\* C19: while an object's thread checks are disabled, a check returns
\* successfully from every thread, for every mode and owner, and a step
\* that records a check changes nothing of any object; the acquisition a
\* recognized thread makes on an unbound next-referencing object with
\* checks disabled goes on to write the owner and binds the object to that
\* thread's role.
C19_DisabledChecksAlwaysPass ==
  /\ [](\A o \in Objects :
          (status[o] = "live" /\ ~thread_checks_enabled_[o])
          => \A k \in ThreadKinds : ObjectThreadCheckResult(k, o) = "ok")
  /\ [][/\ (outcome' # outcome /\ outcome'.op = "check") =>
              UNCHANGED <<affinityVars, object_strong_ref_count_,
                          registryVars, weakVars, status>>
        /\ \A t \in Threads, o \in Objects :
             (/\ ~thread_checks_enabled_[o]
              /\ thread_ownership_[o] = "kNextReferencing"
              /\ owner_thread_[o] = kInvalid
              /\ RefAcquireTest(t, o))
             => pc'[t] = "acquire_write" /\ self'[t] = o
        /\ \A t \in Threads :
             (/\ RefAcquireWrite(t)
              /\ ~thread_checks_enabled_[self[t]]
              /\ owner_thread_[self[t]] = kInvalid
              /\ RoleTag(thread_kind[t]) # "none")
             => owner_thread_'[self[t]] = RoleTag(thread_kind[t])]_vars

\* C19 witness: an object with checks disabled was bound by an acquisition
\* and a check from a role other than its owner has returned successfully.
C19_Witness ==
  \E o \in Objects :
    /\ status[o] = "live"
    /\ ~thread_checks_enabled_[o]
    /\ thread_ownership_[o] = "kNextReferencing"
    /\ writes[o] = 1
    /\ owner_thread_[o] \in ThreadTags
    /\ outcome.op = "check" /\ outcome.result = "ok"
    /\ RoleTag(outcome.kind) # owner_thread_[o]

\* The list is ordered most recently constructed first: addresses are handed
\* out in the order the constructors take the mutex.
NewestFirst(q) == \A i, j \in 1..Len(q) : i < j => q[i] > q[j]

\* The steps of C15, for a constructor run by thread t: the splice puts the
\* object at the head, with a null object_prev_, the previous head as its
\* object_next_ and itself as that head's object_prev_, changing no other
\* link and not the count; the last step adds exactly 1 to the count and
\* changes no link; neither makes an affinity check.
C15_Steps ==
  \A t \in Threads :
    /\ (pc[t] = "ctor_splice" /\ pc'[t] = "ctor_count") =>
         LET o == self[t]
             h == object_list_first
         IN /\ object_list_first' = o
            /\ object_prev_'[o] = NULL
            /\ object_next_'[o] = h
            /\ h # NULL =>
                 /\ object_prev_'[h] = o
                 /\ object_next_'[h] = object_next_[h]
            /\ \A p \in Objects \ {o, h} :
                 /\ object_prev_'[p] = object_prev_[p]
                 /\ object_next_'[p] = object_next_[p]
            /\ LiveList' = <<o>> \o LiveList
            /\ object_count' = object_count
            /\ outcome' = outcome
    /\ (pc[t] = "ctor_count" /\ pc'[t] = "ctor_derived") =>
         /\ object_count' = object_count + 1
         /\ UNCHANGED <<object_list_first, object_prev_, object_next_>>
         /\ object_list_first = self[t]
         /\ self[t] \in LiveObjects'
         /\ outcome' = outcome

\* C15: constructing an object splices it at the head of the live list and
\* counts it, leaving the order and links of the other objects as they
\* were, so the list is always ordered most recently constructed first;
\* a constructor can start on any thread that is idle when the mutex is
\* free, whatever the thread's role, and no affinity check is made.
C15_ConstructSplicesAtHead ==
  /\ [](/\ NewestFirst(LiveList)
        /\ outcome = NoOutcome
        /\ \A t \in Threads :
             (/\ pc[t] = "idle" /\ object_list_mutex = NoThread
              /\ \E o \in Objects : status[o] = "unborn")
             => ENABLED (\E o \in Objects : ObjectCtorLock(t, o, ClassA)))
  /\ [][C15_Steps]_vars

\* C15 witness: the main thread has spliced an object whose default role is
\* logic ahead of the previous head, after another object was destroyed.
C15_Witness ==
  \E t \in Threads :
    /\ pc[t] = "ctor_count" /\ thread_kind[t] = "main"
    /\ default_owner[self[t]] = "kLogic"
    /\ object_list_first = self[t]
    /\ object_next_[self[t]] # NULL
    /\ object_prev_[object_next_[self[t]]] = self[t]
    /\ \E o \in Objects : status[o] = "dead"

\* The destructor of o has unspliced o from the list.
Deregistered(o) ==
  \/ status[o] = "dead"
  \/ /\ status[o] = "destroying"
     /\ \E t \in Threads : self[t] = o /\ pc[t] \in {"dtor_warn", "dtor_weak"}

\* The sequence q without o.
Without(q, o) == SelectSeq(q, LAMBDA x : x # o)

\* The step of C16, for a destructor run by thread t: the object was in
\* the list once; afterwards the list is the list before without it, in the
\* same order, and the count is down by exactly 1; only the links of its
\* neighbours change.
C16_Steps ==
  \A t \in Threads :
    (pc[t] = "dtor_unsplice" /\ pc'[t] = "dtor_warn") =>
      LET o == self[t]
      IN /\ Cardinality({i \in 1..Len(LiveList) : LiveList[i] = o}) = 1
         /\ LiveList' = Without(LiveList, o)
         /\ Len(LiveList') = Len(LiveList) - 1
         /\ object_count' = object_count - 1
         /\ \A p \in Objects \ {o} :
              /\ p # object_next_[o] => object_prev_'[p] = object_prev_[p]
              /\ p # object_prev_[o] => object_next_'[p] = object_next_[p]

\* C16: the destructor of o removes exactly o from the list, wherever o is
\* in it: o is no more reachable from the head, the count is down by 1, the
\* other objects are all still reachable in the same order; once o is
\* deregistered no census meets o in its walk.
C16_DestroyRemovesExactlyTheObject ==
  /\ [](\A o \in Objects :
          Deregistered(o) =>
            /\ o \notin SeqToSet(LiveList)
            /\ LiveObjects \subseteq SeqToSet(LiveList)
            /\ \A t \in Threads : pc[t] = "ls_tally" => ls_o[t] # o)
  /\ [][C16_Steps]_vars

\* C16 witness: three objects have been destroyed, one as an interior node,
\* one as the tail and one as the only node (each keeps the links it had
\* when it was unspliced), and a census is walking the list since.
C16_Witness ==
  /\ \E a, b, c \in Objects :
       /\ status[a] = "dead" /\ status[b] = "dead" /\ status[c] = "dead"
       /\ object_prev_[a] # NULL /\ object_next_[a] # NULL
       /\ object_prev_[b] # NULL /\ object_next_[b] = NULL
       /\ object_prev_[c] = NULL /\ object_next_[c] = NULL
  /\ \E t \in Threads : pc[t] = "ls_tally"

\* The steps of C17, for the loop run by thread t on object o: an iteration
\* visits the head of o's chain, a weak reference still bound to o, leaves
\* it empty and out of the chain, and shortens the chain by that node only;
\* the loop ends, with a null chain head, after exactly as many iterations
\* as the chain had nodes when the loop was entered.
C17_Steps ==
  \A t \in Threads :
    LET o == self[t]
        tmp == object_weak_refs_[o]
    IN /\ (pc[t] = "dtor_weak" /\ pc'[t] = "dtor_weak"
           /\ walk'[t] # walk[t]) =>
            /\ tmp # NULL /\ obj_[tmp] = o
            /\ obj_'[tmp] = NULL /\ prev_'[tmp] = NULL /\ next_'[tmp] = NULL
            /\ WeakChain(o)' = Tail(WeakChain(o))
            /\ walk'[t].iters = walk[t].iters + 1
            /\ \A w \in WeakRefs \ {tmp} : obj_'[w] = obj_[w]
       /\ (pc[t] = "dtor_weak" /\ pc'[t] = "idle") =>
            /\ object_weak_refs_[o] = NULL
            /\ walk[t].iters = walk[t].k
            /\ \A w \in WeakRefs : obj_[w] # o

\* C17: the destructor's loop over a chain of k weak references makes
\* exactly k iterations, each clearing the referent and links of one node
\* not cleared before, and ends with a null chain head; in the loop the
\* thread can always take its next step, whatever the number of weak
\* references, and it always gets out of the destructor.
C17_WeakWalkTerminates ==
  /\ [](\A t \in Threads :
          pc[t] = "dtor_weak" =>
            /\ walk[t].iters + Len(WeakChain(self[t])) = walk[t].k
            /\ NoDuplicates(WeakChain(self[t]))
            /\ \A w \in WeakRefs :
                 obj_[w] = self[t] <=> w \in SeqToSet(WeakChain(self[t]))
            /\ ENABLED (ObjectDtorWeakStep(t) \/ ObjectDtorDone(t)))
  /\ [][C17_Steps]_vars
  /\ \A t \in Threads : (pc[t] = "dtor_weak") ~> (pc[t] = "idle")

\* C17 witness: a loop entered on a chain of every weak reference has made
\* as many iterations and is about to end, the chain head being null.
C17_Witness ==
  \E t \in Threads :
    /\ pc[t] = "dtor_weak"
    /\ walk[t].k = NumWeakRefs /\ walk[t].iters = NumWeakRefs
    /\ object_weak_refs_[self[t]] = NULL
    /\ \A w \in WeakRefs : bound_to[w] = self[t] /\ EmptyWeakRef(w)

\* The steps of C20: the destructor of a live MeshData completes whether or
\* not data is attached; renderer_data() returns the attached data, its
\* assertion failing exactly when none is attached.
C20_Steps ==
  \A m \in Meshes :
    /\ (mesh_status[m] = "live" /\ mesh_status'[m] # "live") =>
         /\ mesh_status'[m] = "dead"
         /\ m \in mesh_leaked' <=> renderer_data_[m] # NULL
    /\ (mesh_access' # mesh_access /\ mesh_access'.mesh = m) =>
         /\ mesh_access'.asserted <=> renderer_data_[m] # NULL
         /\ mesh_access'.asserted =>
              mesh_access'.data = RendererDataOf(m)

\* C20: once a MeshData is destroyed, its destructor logged the error iff
\* renderer data was attached at that moment, that is iff the last of its
\* Load and Unload calls was a Load (never when it was never loaded or was
\* unloaded last); the destructor of a live MeshData can always run, and
\* completes in both cases; renderer_data()'s assertion holds exactly in
\* the states where data is attached.
C20_LeakDiagnosticIffLoaded ==
  /\ [](\A m \in Meshes :
          /\ m \in mesh_leaked => mesh_status[m] = "dead"
          /\ mesh_status[m] = "dead" =>
               /\ m \in mesh_leaked <=> renderer_data_[m] # NULL
               /\ m \in mesh_leaked <=> mesh_last_op[m] = "load"
          /\ mesh_status[m] = "live" =>
               /\ ENABLED MeshDataDtor(m)
               /\ renderer_data_[m] # NULL <=> mesh_last_op[m] = "load")
  /\ [][C20_Steps]_vars

\* C20 witness: three MeshData have been destroyed, one never loaded and
\* one unloaded last, both without the error, and one loaded last, with it.
C20_Witness ==
  \E a, b, c \in Meshes :
    /\ mesh_status[a] = "dead" /\ mesh_last_op[a] = "none"
    /\ a \notin mesh_leaked
    /\ mesh_status[b] = "dead" /\ mesh_last_op[b] = "unload"
    /\ b \notin mesh_leaked
    /\ mesh_status[c] = "dead" /\ mesh_last_op[c] = "load"
    /\ c \in mesh_leaked

====
